---- MODULE Spec2Model ----
(***************************************************************************)
(* Email Campaign Analyzer (src/src/EmailAnalyzer.jsx): the CSV reader,    *)
(* the template classifier, the metrics and subject extractors and the     *)
(* aggregator, with the component state (data, loading, analysis) they     *)
(* feed.  Text is modelled character by character: a TLA+ string stands    *)
(* for a JavaScript string, SubSeq(s, i, i) for s[i-1].                    *)
(***************************************************************************)
EXTENDS Integers, Sequences, FiniteSets, TLC

VARIABLES
  text,      \* the text of the file selected last
  reading,   \* the texts whose read is in flight, one FileReader each
  data,      \* useState([]): the parsed rows
  analysis,  \* useState(null): the report
  loading,   \* useState(false)
  alerts,    \* the alert() dialogs raised since the last upload started
  input,     \* the argument of a call of analyzeTemplate on its own
  result,    \* what that call returned
  download   \* the file downloaded last, if any

vars == <<text, reading, data, analysis, loading, alerts, input, result, download>>

(***************************************************************************)
(* JavaScript string primitives                                            *)
(***************************************************************************)

\* The white space String.prototype.trim and the regex class \s remove
\* (the members that occur in the inputs).
WhiteSpace == {" ", "\n", "\t", "\r"}

CharAt(s, i) == SubSeq(s, i, i)

\* Loops over the characters of a string are split in halves, so that the
\* depth of the evaluation grows with the logarithm of the length.

RECURSIVE ConcatRange(_, _, _)
\* F(lo) \o F(lo + 1) \o ... \o F(hi)
ConcatRange(F(_), lo, hi) ==
  IF lo > hi THEN ""
  ELSE IF lo = hi THEN F(lo)
  ELSE LET mid == (lo + hi) \div 2
       IN  ConcatRange(F, lo, mid) \o ConcatRange(F, mid + 1, hi)

RECURSIVE ForEach(_, _, _, _)
\* the value of st after  for (j = lo; j <= hi; j++) st = Step(st, j).
\* TLC evaluates a LET definition when it is first used: the test on first
\* makes it run the first half of the loop before the second half starts.
ForEach(Step(_, _), lo, hi, st) ==
  IF lo > hi THEN st
  ELSE IF lo = hi THEN Step(st, lo)
  ELSE LET mid   == (lo + hi) \div 2
           first == ForEach(Step, lo, mid, st)
       IN  IF first = first THEN ForEach(Step, mid + 1, hi, first) ELSE st

\* the least member of a non-empty set of positions
Min(S) == CHOOSE i \in S : \A k \in S : i <= k

TrimStart(s) ==
  LET i == CHOOSE i \in 1..(Len(s) + 1) :
             /\ i = Len(s) + 1 \/ CharAt(s, i) \notin WhiteSpace
             /\ \A k \in 1..(i - 1) : CharAt(s, k) \in WhiteSpace
  IN  SubSeq(s, i, Len(s))

TrimEnd(s) ==
  LET i == CHOOSE i \in 0..Len(s) :
             /\ i = 0 \/ CharAt(s, i) \notin WhiteSpace
             /\ \A k \in (i + 1)..Len(s) : CharAt(s, k) \in WhiteSpace
  IN  SubSeq(s, 1, i)

\* String.prototype.trim
Trim(s) == TrimEnd(TrimStart(s))

\* s.replace(/^"|"$/g, ''): one leading and one trailing double quote go.
StripQuotes(s) ==
  LET a == IF s # "" /\ Head(s) = "\"" THEN Tail(s) ELSE s
  IN  IF a # "" /\ CharAt(a, Len(a)) = "\"" THEN SubSeq(a, 1, Len(a) - 1) ELSE a

LowerMap ==
  [A |-> "a", B |-> "b", C |-> "c", D |-> "d", E |-> "e", F |-> "f", G |-> "g",
   H |-> "h", I |-> "i", J |-> "j", K |-> "k", L |-> "l", M |-> "m", N |-> "n",
   O |-> "o", P |-> "p", Q |-> "q", R |-> "r", S |-> "s", T |-> "t", U |-> "u",
   V |-> "v", W |-> "w", X |-> "x", Y |-> "y", Z |-> "z"]

ToLowerChar(c) == IF c \in DOMAIN LowerMap THEN LowerMap[c] ELSE c

\* String.prototype.toLowerCase
ToLowerCase(s) == ConcatRange(LAMBDA i : ToLowerChar(CharAt(s, i)), 1, Len(s))

\* the first position at or after from of a character of cs in s, 0 if none
IndexOfChar(s, cs, from) ==
  LET hits == {i \in from..Len(s) : CharAt(s, i) \in cs}
  IN  IF hits = {} THEN 0 ELSE Min(hits)

RECURSIVE SplitFrom(_, _, _)
\* the pieces of s from position start on
SplitFrom(s, c, start) ==
  LET i == IndexOfChar(s, {c}, start)
  IN  IF i = 0 THEN <<SubSeq(s, start, Len(s))>>
      ELSE <<SubSeq(s, start, i - 1)>> \o SplitFrom(s, c, i + 1)

\* s.split(c) for a one-character separator c
Split(s, c) == SplitFrom(s, c, 1)

\* s.includes(p)
Includes(s, p) ==
  \E i \in 1..(Len(s) - Len(p) + 1) : SubSeq(s, i, i + Len(p) - 1) = p

\* row.key for a key the row may lack: undefined and '' are both falsy, and
\* every reader of a row only asks whether the value is truthy before using it.
Field(row, k) == IF k \in DOMAIN row THEN row[k] ELSE ""

\* a || b on strings
Or(a, b) == IF a # "" THEN a ELSE b

(***************************************************************************)
(* parseCSV                                                                *)
(***************************************************************************)

\* the least body length a row with a body is kept for
MinBodyLength == 10

\* lines[0].split(',').map(h => h.trim().replace(/^"|"$/g, '').toLowerCase())
parseHeaders(line) ==
  LET hs == Split(line, ",")
  IN  [k \in 1..Len(hs) |-> ToLowerCase(StripQuotes(Trim(hs[k])))]

\* values.push(current.trim().replace(/^"|"$/g, ''))
pushField(values, current) == Append(values, StripQuotes(Trim(current)))

\* scanChar that copies the quote into the field as well
scanCharKeepsQuote(st, char) ==
  IF char = "\"" THEN [st EXCEPT !.inQuotes = ~@, !.current = @ \o char]
  ELSE IF char = "," /\ ~st.inQuotes
    THEN [st EXCEPT !.values = pushField(@, st.current), !.current = ""]
    ELSE [st EXCEPT !.current = @ \o char]

\* one character of the comma splitter
scanChar(st, char) ==
  IF char = "\"" THEN [st EXCEPT !.inQuotes = ~@]
  ELSE IF char = "," /\ ~st.inQuotes
    THEN [st EXCEPT !.values = pushField(@, st.current), !.current = ""]
    ELSE [st EXCEPT !.current = @ \o char]

\* for (let j = 0; j < line.length; j++)
scanLine(line, st) ==
  ForEach(LAMBDA acc, j : scanChar(acc, CharAt(line, j)), 1, Len(line), st)

\* the multi-line step: the text added to the open field before the next
\* physical line is scanned
\* joinLine without the inserted newline
joinLineBare(current) == current

joinLine(current) == current \o "\n"

RECURSIVE scanRecord(_, _, _)
\* while (i < lines.length) { scan the line; continue into the next one while
\* inside quotes }.  Lines are numbered from 1 here, from 0 in the source.
scanRecord(lines, i, st) ==
  LET s2 == scanLine(lines[i], st)
  IN  IF s2.inQuotes /\ i + 1 <= Len(lines)
        THEN scanRecord(lines, i + 1, [s2 EXCEPT !.current = joinLine(@)])
        ELSE [st |-> s2, i |-> i]

\* headers.forEach((header, idx) => { row[header] = values[idx] || '' })
makeRow(headers, values) ==
  [h \in {headers[k] : k \in 1..Len(headers)} |->
     LET idx == CHOOSE k \in 1..Len(headers) :
                  /\ headers[k] = h
                  /\ \A m \in 1..Len(headers) : headers[m] = h => m <= k
     IN  IF idx <= Len(values) THEN values[idx] ELSE ""]

\* keepRow asking for a body of more than MinBodyLength characters
keepRowLonger(row) ==
  LET hasBody      == Trim(Field(row, "body")) # ""
      hasSubject   == Trim(Field(row, "subject")) # ""
      hasRecipient == Trim(Field(row, "recipient")) # ""
  IN  /\ hasBody \/ hasSubject \/ hasRecipient
      /\ ~hasBody \/ Len(Trim(Field(row, "body"))) > MinBodyLength

\* "Only add rows that have meaningful content"
keepRow(row) ==
  LET hasBody      == Trim(Field(row, "body")) # ""
      hasSubject   == Trim(Field(row, "subject")) # ""
      hasRecipient == Trim(Field(row, "recipient")) # ""
  IN  /\ hasBody \/ hasSubject \/ hasRecipient
      /\ ~hasBody \/ Len(Trim(Field(row, "body"))) >= MinBodyLength

RECURSIVE logicalRowsRescan(_, _, _)
\* logicalRows that goes on from the line after the first line of the row,
\* whatever lines the row took
logicalRowsRescan(lines, headers, i) ==
  IF i > Len(lines) THEN <<>>
  ELSE LET rec    == scanRecord(lines, i,
                       [values |-> <<>>, current |-> "", inQuotes |-> FALSE])
           values == pushField(rec.st.values, rec.st.current)
       IN  <<makeRow(headers, values)>> \o logicalRowsRescan(lines, headers, i + 1)

RECURSIVE logicalRows(_, _, _)
\* the outer while (i < lines.length): the row objects it builds, one for each
\* logical row from line i on, before the test that keeps or drops them
logicalRows(lines, headers, i) ==
  IF i > Len(lines) THEN <<>>
  ELSE LET rec    == scanRecord(lines, i,
                       [values |-> <<>>, current |-> "", inQuotes |-> FALSE])
           values == pushField(rec.st.values, rec.st.current)
       IN  <<makeRow(headers, values)>> \o logicalRows(lines, headers, rec.i + 1)

\* rowObjects without the test on lines.length and with the scan begun at the
\* header line
rowObjectsFromHeader(t) ==
  LET lines == Split(t, "\n")
  IN  logicalRows(lines, parseHeaders(lines[1]), 1)

\* the row objects of a text, kept or not
rowObjects(t) ==
  LET lines == Split(t, "\n")
  IN  IF Len(lines) < 2 THEN <<>>
      ELSE logicalRows(lines, parseHeaders(lines[1]), 2)

\* rows.push(row) for the rows that pass the test, in input order
parseCSV(t) == SelectSeq(rowObjects(t), keepRow)

(***************************************************************************)
(* Regular expressions of the classifier, as what they match               *)
(***************************************************************************)

\* p occurs in s at position i
OccursAt(s, p, i) ==
  i >= 1 /\ i + Len(p) - 1 <= Len(s) /\ SubSeq(s, i, i + Len(p) - 1) = p

\* the positions where some member of ps occurs in s
Starts(s, ps) == {i \in 1..Len(s) : \E p \in ps : OccursAt(s, p, i)}

\* the positions just after an occurrence of some member of ps in s
Ends(s, ps) == {e \in 1..(Len(s) + 1) : \E p \in ps : OccursAt(s, p, e - Len(p))}

\* /a|b|c/ over literal alternatives
MatchesAny(s, ps) == \E p \in ps : Includes(s, p)

\* the regex dot: any character but a line terminator
DotRun(s, from, to) == \A k \in from..to : CharAt(s, k) \notin {"\n", "\r"}

\* /(a1|a2).*(b1|b2)/ : an alternative of as, any run of dots, one of bs.
\* An optional last letter (challenges?) is written as the alternative
\* without it: the run of dots takes the letter when it is there.
MatchesThen(s, as, bs) ==
  \E e \in Ends(s, as) : \E j \in Starts(s, bs) : j >= e /\ DotRun(s, e, j - 1)

Digits == {"0", "1", "2", "3", "4", "5", "6", "7", "8", "9"}

Letters == DOMAIN LowerMap \cup {LowerMap[c] : c \in DOMAIN LowerMap}

\* the regex class \w
WordChars == Letters \cup Digits \cup {"_"}

\* /\d+%|\d+x/
MatchesDigitsUnit(s) ==
  \E i \in 1..(Len(s) - 1) : CharAt(s, i) \in Digits /\ CharAt(s, i + 1) \in {"%", "x"}

\* /^(hi|hello|hey).*\?\s/
MatchesGreetingQuestion(s) ==
  \E g \in {"hi", "hello", "hey"} :
    /\ OccursAt(s, g, 1)
    /\ \E j \in (Len(g) + 1)..(Len(s) - 1) :
         /\ CharAt(s, j) = "?"
         /\ CharAt(s, j + 1) \in WhiteSpace
         /\ DotRun(s, Len(g) + 1, j - 1)

\* /^(are you|do you|have you|would you|can you)\b/
MatchesQuestionStart(s) ==
  \E q \in {"are you", "do you", "have you", "would you", "can you"} :
    /\ OccursAt(s, q, 1)
    /\ Len(s) = Len(q) \/ CharAt(s, Len(q) + 1) \notin WordChars

\* An indicator rule: literal alternatives, a.*b alternatives, and one of the
\* three patterns that are no list of literals; with its weight.
Lit(ps, w)        == [lits |-> ps, thenA |-> {}, thenB |-> {}, form |-> "lit", weight |-> w]
LitThen(ps, as, bs, w) ==
  [lits |-> ps, thenA |-> as, thenB |-> bs, form |-> "lit", weight |-> w]
Form(f, w)        == [lits |-> {}, thenA |-> {}, thenB |-> {}, form |-> f, weight |-> w]

\* indicator.pattern.test(bodyWithoutSig)
patternTest(ind, s) ==
  \/ MatchesAny(s, ind.lits)
  \/ ind.thenA # {} /\ MatchesThen(s, ind.thenA, ind.thenB)
  \/ ind.form = "digitsUnit" /\ MatchesDigitsUnit(s)
  \/ ind.form = "greetingQuestion" /\ MatchesGreetingQuestion(s)
  \/ ind.form = "questionStart" /\ MatchesQuestionStart(s)

(***************************************************************************)
(* TEMPLATES: the registry, in declaration order                           *)
(***************************************************************************)

TEMPLATES == <<
  [name |-> "Research-Based Outreach",
   description |-> "Personalized emails that reference specific research about the prospect or their organization, followed by a relevant pain point question and social proof",
   indicators |-> <<
     Lit({"noticed", "saw that", "came across", "read about", "read that",
          "saw your", "found that"}, 2),
     Lit({"wondering if", "curious if", "curious about", "interested to know"}, 2),
     LitThen({"was able to", "were able to", "achieved", "accomplished", "saw a"},
             {"helped"}, {"achieve"}, 2),
     LitThen({}, {"challenge", "issue", "pain point", "concern"},
             {"facing", "experiencing", "dealing with"}, 1) >>,
   minScore |-> 4],
  [name |-> "Problem + Solution",
   description |-> "Direct approach identifying a common problem followed by proposed solution, often without personalization",
   indicators |-> <<
     Lit({"struggling with", "challenges with", "difficulty", "problem with",
          "issue with"}, 2),
     Lit({"solution", "solve", "address", "help with", "can help"}, 2),
     Lit({"we offer", "we provide", "we have", "we specialize"}, 1) >>,
   minScore |-> 3],
  [name |-> "Direct Meeting Request",
   description |-> "Straightforward ask for a meeting or call, often with minimal context",
   indicators |-> <<
     Lit({"schedule", "calendar", "meeting", "call", "connect", "time to chat",
          "time to talk", "time to discuss"}, 2),
     Lit({"available", "free", "open", "have time", "have 15 minutes"}, 1),
     Lit({"would you be", "would you have", "are you available", "are you free"}, 1) >>,
   minScore |-> 3],
  [name |-> "Follow-Up",
   description |-> "Checking in on previous communication or continuing an existing conversation",
   indicators |-> <<
     Lit({"following up", "follow up", "checking in", "touching base",
          "circling back"}, 3),
     Lit({"previous", "earlier", "last week", "last email", "last conversation",
          "haven't heard"}, 2) >>,
   minScore |-> 3],
  [name |-> "Value Proposition",
   description |-> "Leading with company benefits, ROI, or results without specific personalization",
   indicators |-> <<
     Lit({"we help", "we work with", "we've helped", "we partner"}, 2),
     Lit({"increase", "reduce", "improve", "save", "grow"}, 1),
     Form("digitsUnit", 1) >>,
   minScore |-> 3],
  [name |-> "Event-Based Outreach",
   description |-> "Leveraging a conference, event, or specific timing for outreach",
   indicators |-> <<
     Lit({"conference", "summit", "meeting", "event", "attending"}, 2),
     Lit({"while you're", "will be", "in new york", "in boston", "in chicago",
          "in san francisco", "in new orleans"}, 2),
     Lit({"next week", "coming up", "around the corner"}, 1) >>,
   minScore |-> 3],
  [name |-> "Social Proof Heavy",
   description |-> "Multiple references to other clients, case studies, or results to build credibility",
   indicators |-> <<
     LitThen({}, {"university", "college", "school", "hospital", "health system"},
             {"achieved", "saw", "increased"}, 2),
     Lit({"similar to yours", "others like you", "clients like"}, 2),
     Lit({"case study", "success story"}, 2) >>,
   minScore |-> 3],
  [name |-> "Question Opener",
   description |-> "Opens with a direct question to engage prospect",
   indicators |-> <<
     Form("greetingQuestion", 2),
     Form("questionStart", 2) >>,
   minScore |-> 2] >>

(***************************************************************************)
(* analyzeTemplate                                                         *)
(***************************************************************************)

RECURSIVE StripTags(_)
\* s.replace(/<[^>]*>/g, '')
StripTags(s) ==
  LET lt == IndexOfChar(s, {"<"}, 1)
      gt == IF lt = 0 THEN 0 ELSE IndexOfChar(s, {">"}, lt + 1)
  IN  IF gt = 0 THEN s
      ELSE SubSeq(s, 1, lt - 1) \o StripTags(SubSeq(s, gt + 1, Len(s)))

\* position i of s starts a maximal run of white space
StartsSpaceRun(s, i) ==
  CharAt(s, i) \in WhiteSpace /\ (i = 1 \/ CharAt(s, i - 1) \notin WhiteSpace)

\* s.replace(/\s+/g, ' ')
CollapseSpace(s) ==
  ConcatRange(LAMBDA i : IF CharAt(s, i) \notin WhiteSpace THEN CharAt(s, i)
                         ELSE IF StartsSpaceRun(s, i) THEN " " ELSE "",
              1, Len(s))

SignatureMarkers ==
  {"--", "sincerely", "best regards", "regards", "thanks", "thank you", "cheers"}

\* s.split(/--|sincerely|best regards|regards|thanks|thank you|cheers/i)[0]
BeforeSignature(s) ==
  LET at == Starts(s, SignatureMarkers)
  IN  IF at = {} THEN s
      ELSE SubSeq(s, 1, Min(at) - 1)

\* the text the indicators are tested on
bodyWithoutSig(emailBody) ==
  BeforeSignature(Trim(CollapseSpace(StripTags(ToLowerCase(emailBody)))))

\* the number of maximal runs of white space in s
SpaceRuns(s) == Cardinality({i \in 1..Len(s) : StartsSpaceRun(s, i)})

\* s.split(/\s+/).length
wordCount(s) == SpaceRuns(s) + 1

ShortWords == 30
LongWords == 150

RECURSIVE SumWeights(_, _, _)
\* for (const indicator of template.indicators) if (test) score += weight
SumWeights(indicators, s, k) ==
  IF k > Len(indicators) THEN 0
  ELSE (IF patternTest(indicators[k], s) THEN indicators[k].weight ELSE 0)
         + SumWeights(indicators, s, k + 1)

\* the score as the number of matching indicators, weights left out
templateScoreCount(template, s) ==
  Cardinality({k \in 1..Len(template.indicators) :
                 patternTest(template.indicators[k], s)})

templateScore(template, s) == SumWeights(template.indicators, s, 1)

\* beats with a score equal to the highest so far taken as higher
beatsOrTies(score, minScore, highestScore) ==
  score >= minScore /\ score >= highestScore

\* if (score >= template.minScore && score > highestScore)
beats(score, minScore, highestScore) == score >= minScore /\ score > highestScore

\* bestMatch before the first template that qualifies: null
NoMatch == [type |-> "", score |-> 0, description |-> ""]

\* the body of the loop over the templates, for one template and its score:
\* [bestMatch, highestScore] after it
consider(template, score, best) ==
  IF beats(score, template.minScore, best.highestScore)
    THEN [bestMatch |-> [type |-> template.name, score |-> score,
                         description |-> template.description],
          highestScore |-> score]
    ELSE best

RECURSIVE scoreTemplates(_, _, _)
\* for (const [key, template] of Object.entries(TEMPLATES)), from the k-th on
scoreTemplates(s, k, best) ==
  IF k > Len(TEMPLATES) THEN best.bestMatch
  ELSE scoreTemplates(s, k + 1,
         consider(TEMPLATES[k], templateScore(TEMPLATES[k], s), best))

\* fallback with a text of ShortWords words taken as short
fallbackInclusive(s) ==
  IF wordCount(s) <= ShortWords
    THEN [type |-> "Short & Direct", score |-> 1,
          description |-> "Brief, concise message under 30 words"]
  ELSE IF wordCount(s) > LongWords
    THEN [type |-> "Long-Form Narrative", score |-> 1,
          description |-> "Detailed, comprehensive message over 150 words"]
    ELSE [type |-> "Standard Outreach", score |-> 0,
          description |-> "General outreach email without distinct pattern"]

\* "Fallback categorization based on length and structure"
fallback(s) ==
  IF wordCount(s) < ShortWords
    THEN [type |-> "Short & Direct", score |-> 1,
          description |-> "Brief, concise message under 30 words"]
  ELSE IF wordCount(s) > LongWords
    THEN [type |-> "Long-Form Narrative", score |-> 1,
          description |-> "Detailed, comprehensive message over 150 words"]
    ELSE [type |-> "Standard Outreach", score |-> 0,
          description |-> "General outreach email without distinct pattern"]

\* if (!bestMatch) { fallback } return bestMatch
orFallback(bestMatch, s) == IF bestMatch = NoMatch THEN fallback(s) ELSE bestMatch

\* the classification of the text before the signature
classify(s) ==
  orFallback(scoreTemplates(s, 1, [bestMatch |-> NoMatch, highestScore |-> 0]), s)

analyzeTemplate(emailBody) ==
  IF emailBody = "" \/ Trim(emailBody) = ""
    THEN [type |-> "Empty/No Body", score |-> 0,
          description |-> "Email has no body content"]
    ELSE classify(bodyWithoutSig(emailBody))

(***************************************************************************)
(* calculateMetrics                                                        *)
(***************************************************************************)

\* A JavaScript number that parseInt returns: an integer or NaN.
Num(n) == [nan |-> FALSE, n |-> n]
NaN == [nan |-> TRUE, n |-> 0]

DigitValue ==
  [c \in Digits |-> CHOOSE v \in 0..9 : ToString(v) = c]

\* the length of the longest prefix of s made of digits
DigitPrefix(s) ==
  LET stop == {i \in 1..Len(s) : CharAt(s, i) \notin Digits}
  IN  IF stop = {} THEN Len(s) ELSE Min(stop) - 1

RECURSIVE DecimalValue(_, _)
\* the value of the first k characters of s, all digits
DecimalValue(s, k) ==
  IF k = 0 THEN 0 ELSE 10 * DecimalValue(s, k - 1) + DigitValue[CharAt(s, k)]

\* the digits of t, after its sign, as a number
signedDigits(sign, digits) ==
  IF DigitPrefix(digits) = 0 THEN NaN
  ELSE Num(sign * DecimalValue(digits, DigitPrefix(digits)))

\* parseInt of a string without leading white space
parseSigned(t) ==
  IF t # "" /\ Head(t) = "-" THEN signedDigits(-1, Tail(t))
  ELSE IF t # "" /\ Head(t) = "+" THEN signedDigits(1, Tail(t))
  ELSE signedDigits(1, t)

\* parseInt(s): leading white space, an optional sign, then the decimal digits
\* up to the first character that is none; NaN when there is no digit.  (No
\* count of the inputs begins with 0x, which parseInt reads as hexadecimal.)
parseInt(s) == parseSigned(TrimStart(s))

\* n > 0 on a number that may be NaN
Positive(x) == ~x.nan /\ x.n > 0

\* the binary flag of a raw count
binaryFlag(count) == Positive(count)

\* email.a || email.b || email.c || email.d || 0, then parseInt
rawCount(email, a, b, c, d) ==
  parseInt(Or(Field(email, a), Or(Field(email, b),
             Or(Field(email, c), Or(Field(email, d), "0")))))

\* return { opened: opens > 0, clicked: clicks > 0, replied: replies > 0,
\*          opens, clicks, replies }
metricsOf(opens, clicks, replies) ==
  [opened  |-> binaryFlag(opens),
   clicked |-> binaryFlag(clicks),
   replied |-> binaryFlag(replies),
   opens   |-> opens,
   clicks  |-> clicks,
   replies |-> replies]

calculateMetrics(email) ==
  metricsOf(rawCount(email, "opens", "Opens", "opened", "Opened"),
            rawCount(email, "clicks", "Clicks", "clicked", "Clicked"),
            rawCount(email, "replies", "Replies", "replied", "Replied"))

(***************************************************************************)
(* analyzeSubject                                                          *)
(***************************************************************************)

\* the characters U+1F600..U+1F64F; no input of the model holds one
Emoticons == {}

analyzeSubject(subject) ==
  IF subject = ""
    THEN [length |-> 0, hasQuestion |-> FALSE, hasPersonalization |-> FALSE]
    ELSE [length |-> Len(subject),
          hasQuestion |-> Includes(subject, "?"),
          hasPersonalization |->
            MatchesAny(ToLowerCase(subject), {"{", "[", "first", "name"}),
          hasNumbers |-> \E i \in 1..Len(subject) : CharAt(subject, i) \in Digits,
          hasEmoji |-> \E i \in 1..Len(subject) : CharAt(subject, i) \in Emoticons]

(***************************************************************************)
(* analyzeEmails                                                           *)
(***************************************************************************)

\* a subject shorter than this counts as short
ShortSubject == 40

\* the quotient cut to an integer instead of rounded
MathFloor(a, b) == a \div b

\* Math.round(a / b) for a >= 0, b > 0: halves go up
MathRound(a, b) == (2 * a + b) \div (2 * b)

\* toFixed1 that cuts the digits after the first decimal instead of rounding
toFixed1Truncate(n, count) ==
  ToString(((1000 * n) \div count) \div 10) \o "." \o ToString(((1000 * n) \div count) % 10)

\* ((n / count) * 100).toFixed(1) for 0 <= n <= count, count > 0: the nearest
\* tenth, halves up, written with one decimal.  The double that the source
\* rounds gives this digit for every count below 80.
toFixed1(n, count) ==
  LET tenths == (2000 * n + count) \div (2 * count)
  IN  ToString(tenths \div 10) \o "." \o ToString(tenths % 10)

\* group.count > 0 ? ((n / group.count) * 100).toFixed(1) : 0
groupRate(n, count) == IF count > 0 THEN toFixed1(n, count) ELSE 0

\* ((n / overall.totalEmails) * 100).toFixed(1): 0 / 0 is NaN
overallRate(n, total) == IF total = 0 THEN "NaN" ELSE toFixed1(n, total)

bodyOf(email) ==
  Or(Field(email, "body"), Or(Field(email, "Body"), Or(Field(email, "Email Body"),
    Or(Field(email, "content"), Field(email, "message")))))

subjectOf(email) ==
  Or(Field(email, "subject"), Or(Field(email, "Subject"),
    Or(Field(email, "Subject Line"), Field(email, "subject_line"))))

sentDateOf(email) ==
  Or(Field(email, "date"), Or(Field(email, "Date"),
    Or(Field(email, "Sent Date"), Field(email, "sent_date"))))

recipientOf(email) ==
  Or(Field(email, "to"), Or(Field(email, "To"), Or(Field(email, "recipient"),
    Or(Field(email, "Recipient"), Field(email, "email")))))

\* a group that starts with a count of one before any row is added
newGroupCountOne(template) ==
  [name |-> template.type,
   description |-> Or(template.description, "Email template pattern"),
   count |-> 1, opens |-> 0, clicks |-> 0, replies |-> 0,
   avgLength |-> 0, totalLength |-> 0, emails |-> <<>>]

\* templateGroups[template.type] = { name, description, count: 0, ... }
newGroup(template) ==
  [name |-> template.type,
   description |-> Or(template.description, "Email template pattern"),
   count |-> 0, opens |-> 0, clicks |-> 0, replies |-> 0,
   avgLength |-> 0, totalLength |-> 0, emails |-> <<>>]

\* tally without the test of the flag
tallyAlways(n, flag) == n + 1

\* if (flag) group.tally++
tally(n, flag) == IF flag THEN n + 1 ELSE n

\* the record pushed onto group.emails
detailOf(email, bodyField, subjectField, metrics) ==
  [subject |-> subjectField,
   body |-> bodyField,
   metrics |-> metrics,
   sentDate |-> sentDateOf(email),
   recipient |-> recipientOf(email)]

\* addEmail that adds the raw counts instead of one for each flag
addEmailRawCounts(group, detail) ==
  [group EXCEPT
     !.count = @ + 1,
     !.totalLength = @ + Len(detail.body),
     !.avgLength = MathRound(group.totalLength + Len(detail.body), group.count + 1),
     !.opens = @ + (IF detail.metrics.opens.nan THEN 0 ELSE detail.metrics.opens.n),
     !.clicks = @ + (IF detail.metrics.clicks.nan THEN 0 ELSE detail.metrics.clicks.n),
     !.replies = @ + (IF detail.metrics.replies.nan THEN 0 ELSE detail.metrics.replies.n),
     !.emails = Append(@, detail)]

\* addEmail with avgLength taken from the row alone
addEmailLastLength(group, detail) ==
  [group EXCEPT
     !.count = @ + 1,
     !.totalLength = @ + Len(detail.body),
     !.avgLength = Len(detail.body),
     !.opens = tally(@, detail.metrics.opened),
     !.clicks = tally(@, detail.metrics.clicked),
     !.replies = tally(@, detail.metrics.replied),
     !.emails = Append(@, detail)]

\* the update of the row's group
addEmail(group, detail) ==
  [group EXCEPT
     !.count = @ + 1,
     !.totalLength = @ + Len(detail.body),
     !.avgLength = MathRound(group.totalLength + Len(detail.body), group.count + 1),
     !.opens = tally(@, detail.metrics.opened),
     !.clicks = tally(@, detail.metrics.clicked),
     !.replies = tally(@, detail.metrics.replied),
     !.emails = Append(@, detail)]

\* bucket.total++; if (metrics.opened) bucket.opens++
addToBucket(bucket, opened) ==
  [total |-> bucket.total + 1, opens |-> tally(bucket.opens, opened)]

\* the position of the group named type among groups, 0 if there is none
groupIndex(groups, type) ==
  LET at == {k \in 1..Len(groups) : groups[k].name = type}
  IN  IF at = {} THEN 0 ELSE Min(at)

\* ensureGroup without the lookup: a group is made for every row
ensureGroupAlways(groups, template) == Append(groups, newGroup(template))

\* templateGroups with a group for the template, made if there is none yet
ensureGroup(groups, template) ==
  IF groupIndex(groups, template.type) = 0
    THEN Append(groups, newGroup(template))
    ELSE groups

\* "Group by template": the row added to the group of its template
groupByTemplate(groups, type, detail) ==
  [groups EXCEPT ![groupIndex(groups, type)] = addEmail(@, detail)]

questionBucket(subject) ==
  IF subject.hasQuestion THEN "withQuestion" ELSE "withoutQuestion"

\* lengthBucket with a subject of ShortSubject characters taken as short
lengthBucketInclusive(subject) ==
  IF subject.length <= ShortSubject THEN "shortSubject" ELSE "longSubject"

lengthBucket(subject) ==
  IF subject.length < ShortSubject THEN "shortSubject" ELSE "longSubject"

\* "Subject analysis"
countSubject(subjectAnalysis, subject, opened) ==
  [subjectAnalysis EXCEPT
     ![questionBucket(subject)] = addToBucket(@, opened),
     ![lengthBucket(subject)] = addToBucket(@, opened)]

\* one row, once classified: acc holds templateGroups, in the order of
\* creation, and subjectAnalysis
aggregate(acc, template, detail, subject) ==
  [templateGroups |->
     groupByTemplate(ensureGroup(acc.templateGroups, template), template.type, detail),
   subjectAnalysis |->
     countSubject(acc.subjectAnalysis, subject, detail.metrics.opened)]

\* the row with the fields and the metrics read from it
extract(acc, email, bodyField, subjectField) ==
  aggregate(acc, analyzeTemplate(bodyField),
            detailOf(email, bodyField, subjectField, calculateMetrics(email)),
            analyzeSubject(subjectField))

\* the body of emails.forEach(email => { ... })
processEmail(acc, email) == extract(acc, email, bodyOf(email), subjectOf(email))

RECURSIVE forEachEmail(_, _, _)
\* emails.forEach from row k on
forEachEmail(emails, k, acc) ==
  IF k > Len(emails) THEN acc
  ELSE forEachEmail(emails, k + 1, processEmail(acc, emails[k]))

\* "Calculate rates"
withRates(group) ==
  [name |-> group.name, description |-> group.description,
   count |-> group.count, opens |-> group.opens, clicks |-> group.clicks,
   replies |-> group.replies, avgLength |-> group.avgLength,
   totalLength |-> group.totalLength, emails |-> group.emails,
   openRate  |-> groupRate(group.opens, group.count),
   clickRate |-> groupRate(group.clicks, group.count),
   replyRate |-> groupRate(group.replies, group.count)]

\* the comparator (a, b) => b.count - a.count puts b before a when positive
\* a comparator that also puts a group before the groups of the same count
comesBeforeOrEqual(b, a) == b.count - a.count >= 0

comesBefore(b, a) == b.count - a.count > 0

\* g put into a sorted sequence, after every group it does not come before
insertSorted(sorted, g) ==
  LET before == {k \in 1..Len(sorted) : comesBefore(g, sorted[k])}
      at     == IF before = {} THEN Len(sorted) + 1 ELSE Min(before)
  IN  SubSeq(sorted, 1, at - 1) \o <<g>> \o SubSeq(sorted, at, Len(sorted))

RECURSIVE sortGroups(_, _)
\* Array.prototype.sort with the comparator: a stable sort of the first k groups
sortGroups(groups, k) ==
  IF k = 0 THEN <<>> ELSE insertSorted(sortGroups(groups, k - 1), groups[k])

\* emails.filter(e => calculateMetrics(e).flag).length
countFlag(emails, flag) ==
  Cardinality({k \in 1..Len(emails) : calculateMetrics(emails[k])[flag]})

\* overall.openRate = ..., overall.clickRate = ..., overall.replyRate = ...
overallRates(totalEmails, totalOpens, totalClicks, totalReplies) ==
  [totalEmails |-> totalEmails, totalOpens |-> totalOpens,
   totalClicks |-> totalClicks, totalReplies |-> totalReplies,
   openRate  |-> overallRate(totalOpens, totalEmails),
   clickRate |-> overallRate(totalClicks, totalEmails),
   replyRate |-> overallRate(totalReplies, totalEmails)]

\* "Overall metrics"
overallOf(emails) ==
  overallRates(Len(emails), countFlag(emails, "opened"),
               countFlag(emails, "clicked"), countFlag(emails, "replied"))

EmptyBucket == [opens |-> 0, total |-> 0]

\* templateGroups = {} and the four empty buckets
emptyAcc ==
  [templateGroups |-> <<>>,
   subjectAnalysis |->
     [withQuestion |-> EmptyBucket, withoutQuestion |-> EmptyBucket,
      shortSubject |-> EmptyBucket, longSubject |-> EmptyBucket]]

\* Object.values(templateGroups) with the rates, sorted
ratedGroups(groups) ==
  sortGroups([k \in 1..Len(groups) |-> withRates(groups[k])], Len(groups))

\* the return value, from the state after the pass
reportOf(pass, emails) ==
  [templateGroups |-> ratedGroups(pass.templateGroups),
   overall |-> overallOf(emails),
   subjectAnalysis |-> pass.subjectAnalysis]

analyzeEmails(emails) == reportOf(forEachEmail(emails, 1, emptyAcc), emails)

(***************************************************************************)
(* The files a user uploads                                                *)
(***************************************************************************)

\* the most data records in an uploaded file
MaxRecords == 2

\* the most rows in a row list handed to analyzeEmails on its own
MaxRows == 3

\* A header is a sequence of <<column title, field>>: the title as the file
\* writes it, and the field of a record that the column holds.
HeaderSet ==
  { << <<"subject", "subject">>, <<"body", "body">>, <<"opens", "opens">>,
       <<"clicks", "clicks">>, <<"replies", "replies">> >>,
    << <<"Subject", "subject">>, <<"Body", "body">>,
       <<"Recipient", "recipient">>, <<"Opens", "opens">> >>,
    << <<"Subject Line", "subject">>, <<"Email Body", "body">>,
       <<"recipient", "recipient">>, <<"opened", "opens">> >>,
    << <<"subject_line", "subject">>, <<"content", "body">>,
       <<"recipient", "recipient">>, <<"opens", "opens">> >>,
    << <<"subject", "subject">>, <<"message", "body">>,
       <<"to", "recipient">>, <<"opens", "opens">> >> }

Rec(subject, body, recipient, opens, clicks, replies) ==
  [subject |-> subject, body |-> body, recipient |-> recipient,
   opens |-> opens, clicks |-> clicks, replies |-> replies]

RecordSet ==
  { Rec("Hi", "", "", "1", "0", "0"),
    Rec("", "short", "", "0", "0", "0"),
    Rec("", "", "", "", "", ""),
    Rec("Test", "Body text", "", "1", "0", "0"),
    Rec("Quick question?", "Are you free for a call", "a@b.co", "12", "1", ""),
    Rec("Update", "Noticed your growth,\ncurious if you achieved it", "", "1", "0", "0"),
    Rec("", "", "a@b.co", "", "", ""),
    Rec("Re: notes", "Call me ok", "", "", "2", "x") }

\* a field as a CSV writer puts it: in double quotes when it holds a comma or
\* a line break
writeField(f) ==
  IF Includes(f, ",") \/ Includes(f, "\n") THEN "\"" \o f \o "\"" ELSE f

RECURSIVE joinWith(_, _)
\* parts.join(sep)
joinWith(parts, sep) ==
  IF Len(parts) = 0 THEN ""
  ELSE IF Len(parts) = 1 THEN parts[1]
  ELSE parts[1] \o sep \o joinWith(Tail(parts), sep)

\* the text of a file with this header and these records
writeCSV(header, records) ==
  joinWith(<<joinWith([k \in 1..Len(header) |-> header[k][1]], ",")>> \o
           [r \in 1..Len(records) |->
              joinWith([k \in 1..Len(header) |-> writeField(records[r][header[k][2]])],
                       ",")],
           "\n")

Sheets ==
  {[header |-> h, records |-> rs] :
     h \in HeaderSet,
     rs \in UNION {[1..n -> RecordSet] : n \in 0..MaxRecords}}

\* the end-to-end scenario of the specification
ScenarioBody ==
  "Noticed your recent growth. Wondering if you face challenges? We were able to help similar clients. Would you be open to a call?"
ScenarioFile ==
  "subject,body,opens,clicks,replies\n\"Test\",\"" \o ScenarioBody \o "\",1,0,0"

\* the integration test of ARCHITECTURE.md
IntegrationTestFile ==
  "subject,body,opens,clicks,replies\n\"Test\",\"Body text\",1,0,0"

\* a quoted field with a comma and doubled quotes
DoubledQuotesFile == "subject\n\"Hi, I said \"\"hello\"\"\""

SheetText == [sh \in Sheets |-> writeCSV(sh.header, sh.records)]

\* a file without content
EmptyFile == ""

\* a quote that is opened in the first of three data lines and never closed
OpenQuoteFile ==
  "subject,body\nHi,\"a body that is never closed\nnext,line of the file\nlast,line of the file"

Files ==
  {SheetText[sh] : sh \in Sheets}
    \cup {ScenarioFile, IntegrationTestFile, DoubledQuotesFile, EmptyFile,
          OpenQuoteFile}

\* the rows of the row lists analyzed on their own: rows as parseCSV makes them
AnalyzeRows ==
  {[subject |-> m[4], body |-> b,
    opens |-> m[1], clicks |-> m[2], replies |-> m[3]] :
     b \in {"", "Are you free for a call", "Just a short note"},
     m \in {<<"12", "1", "", "Quick question?">>, <<"0", "", "3", "">>}}
  \cup
  {[subject |-> "A subject line that has forty characters",
    body |-> "Are you free for a call?", opens |-> "12", clicks |-> "1", replies |-> ""],
   [subject |-> "Is this a subject line of more than forty characters?",
    body |-> "", opens |-> "0", clicks |-> "", replies |-> "3"]}

RowLists == UNION {[1..n -> AnalyzeRows] : n \in 0..MaxRows}

(***************************************************************************)
(* The bodies handed to analyzeTemplate on its own                         *)
(***************************************************************************)

\* the most phrases in a body
MaxPhrases == 2

\* n times the word ok, with a space between two of them
Words(n) == ConcatRange(LAMBDA i : IF i = 1 THEN "ok" ELSE " ok", 1, n)

\* phrases that match indicators of several templates, a question opener, a
\* signature, and runs of 29 and 30 words
Phrases ==
  { "Noticed issues you are facing",
    "a university achieved it with clients like you, see the case study",
    "Noticed your growth, curious if you achieved it",
    "struggling with it, we solve it",
    "at the conference you will be at",
    "Are you there?",
    "following up on it",
    "we help you grow",
    "Thanks, Bob",
    Words(29),
    Words(30) }

\* a body with a "<" that no ">" closes before its signature
OpenAngleBody == "cost < 5. Thanks, Bob"

\* the bodies of up to MaxPhrases phrases, one space between two phrases, and
\* bodies without text, of 150 and 151 words, and with an open "<"
Bodies ==
  {joinWith(ps, " ") : ps \in UNION {[1..n -> Phrases] : n \in 1..MaxPhrases}}
    \cup {"", "   ", Words(150), Words(151), OpenAngleBody}

\* texts written after a body: a line below the signature, without and with
\* a ">"
Appended == {" following up on it", " > following up on it"}

(***************************************************************************)
(* The component: data, loading, analysis, and the file being read         *)
(***************************************************************************)

\* analysis is null, or holds a report
Null == <<>>
Some(report) == <<report>>

\* the sequence without its r-th element
Without(seq, r) == SubSeq(seq, 1, r - 1) \o SubSeq(seq, r + 1, Len(seq))

Init ==
  /\ text = ""
  /\ reading = <<>>
  /\ data = <<>>
  /\ analysis = Null
  /\ loading = FALSE
  /\ alerts = 0
  /\ input = ""
  /\ result = Null
  /\ download = Null

\* handleFileUpload behind an input that is not disabled while loading
handleFileUploadWhileLoading(file) ==
  /\ analysis = Null
  /\ loading' = TRUE
  /\ text' = file
  /\ reading' = Append(reading, file)
  /\ alerts' = 0
  /\ UNCHANGED <<data, analysis, input, result, download>>

\* handleFileUpload up to reader.readAsText(file): the input is rendered
\* while analysis is null and enabled while loading is false
handleFileUpload(file) ==
  /\ analysis = Null
  /\ ~loading
  /\ loading' = TRUE
  /\ text' = file
  /\ reading' = Append(reading, file)
  /\ alerts' = 0
  /\ UNCHANGED <<data, analysis, input, result, download>>

\* reader.onload: parseCSV, setData, analyzeEmails, setAnalysis, setLoading
readerOnLoad ==
  \E r \in 1..Len(reading) :
    /\ data' = parseCSV(reading[r])
    /\ analysis' = Some(analyzeEmails(data'))
    /\ loading' = FALSE
    /\ reading' = Without(reading, r)
    /\ UNCHANGED <<text, alerts, input, result, download>>

\* a reset that empties data and keeps the report
clearDataOnly ==
  /\ analysis # Null
  /\ data' = <<>>
  /\ UNCHANGED <<text, reading, analysis, loading, alerts, input, result, download>>

\* the onClick of "Upload New File"
uploadNewFile ==
  /\ analysis # Null
  /\ analysis' = Null
  /\ data' = <<>>
  /\ UNCHANGED <<text, reading, loading, alerts, input, result, download>>

Next ==
  \/ \E file \in Files : handleFileUpload(file)
  \/ readerOnLoad
  \/ uploadNewFile

Spec == Init /\ [][Next]_vars

(***************************************************************************)
(* The component when a call inside reader.onload throws                   *)
(***************************************************************************)

\* the calls inside the try block
Stages == {"parseCSV", "analyzeEmails"}

\* reader.onload when the call of the stage throws: what was set before the
\* throw stays set, then catch (error) { alert(...); setLoading(false) }
readerOnError(stage) ==
  \E r \in 1..Len(reading) :
    /\ data' = IF stage = "parseCSV" THEN data ELSE parseCSV(reading[r])
    /\ alerts' = alerts + 1
    /\ loading' = FALSE
    /\ reading' = Without(reading, r)
    /\ UNCHANGED <<text, analysis, input, result, download>>

\* the files uploaded when a call may throw: the files of one record under
\* the header subject,body,opens,clicks,replies, and the files named above
FaultFiles ==
  {SheetText[sh] : sh \in {f \in Sheets : /\ Len(f.records) = 1
                                          /\ f.header[1][1] = "subject"
                                          /\ f.header[2][1] = "body"}}
    \cup {ScenarioFile, IntegrationTestFile, DoubledQuotesFile, EmptyFile}

NextFaulty ==
  \/ \E file \in FaultFiles : handleFileUpload(file)
  \/ readerOnLoad
  \/ \E stage \in Stages : readerOnError(stage)
  \/ uploadNewFile

SpecFaulty == Init /\ [][NextFaulty]_vars

(***************************************************************************)
(* The component with every event: the read that fails and the export      *)
(***************************************************************************)

\* the latest time, in milliseconds, at which a report is exported
MaxTime == 2

Clock == 1..MaxTime

\* new Date(t).toISOString() for a time t of less than 10 milliseconds
toISOString(t) == "1970-01-01T00:00:00.00" \o ToString(t) \o "Z"

\* the entry of templates made of a whole group, detail records included
templateEntryWhole(g) == g

\* g => ({ name, count, openRate, clickRate, replyRate, avgLength })
templateEntry(g) ==
  [name |-> g.name, count |-> g.count, openRate |-> g.openRate,
   clickRate |-> g.clickRate, replyRate |-> g.replyRate,
   avgLength |-> g.avgLength]

\* const report = { generatedAt, overall, templates, subjectAnalysis }
reportOfExport(report, at) ==
  [generatedAt |-> toISOString(at),
   overall |-> report.overall,
   templates |-> [i \in 1..Len(report.templateGroups) |->
                    templateEntry(report.templateGroups[i])],
   subjectAnalysis |-> report.subjectAnalysis]

\* the file a.click() downloads: its name, and the object whose JSON text
\* it holds (every value of it is a string, an integer or a nested object
\* of these, which JSON.stringify writes as they are)
downloadOf(report, at, named) ==
  [name |-> "email-analysis-" \o ToString(named) \o ".json",
   content |-> reportOfExport(report, at)]

\* exportReport, the onClick of "Export Report", with new Date() at the time
\* at and Date.now() at the time named
exportReport(at, named) ==
  IF analysis = Null
    THEN UNCHANGED vars
    ELSE /\ download' = Some(downloadOf(analysis[1], at, named))
         /\ UNCHANGED <<text, reading, data, analysis, loading, alerts, input, result>>

\* the read of a file ends with an error event: the reader has no onerror
\* handler, so no code of the component runs
readerFails ==
  \E r \in 1..Len(reading) :
    /\ reading' = Without(reading, r)
    /\ UNCHANGED <<text, data, analysis, loading, alerts, input, result, download>>

\* a file of two rows that fall into two groups
TwoGroupsFile ==
  "subject,body,opens,clicks,replies\nQuick question?,Are you free for a call,12,1,\nHi,,1,0,0"

SessionFiles == {ScenarioFile, TwoGroupsFile, EmptyFile}

NextSession ==
  \/ \E file \in SessionFiles : handleFileUpload(file)
  \/ readerOnLoad
  \/ \E stage \in Stages : readerOnError(stage)
  \/ readerFails
  \/ uploadNewFile
  \/ \E named \in Clock : \E at \in 1..named : exportReport(at, named)

SpecSession == Init /\ [][NextSession]_vars

\* the read of a file comes to an end: an error event or a load event
readerEnds ==
  \/ readerFails
  \/ readerOnLoad
  \/ \E stage \in Stages : readerOnError(stage)

\* every read in flight comes to an end
FairSession == SpecSession /\ WF_vars(readerEnds)

(***************************************************************************)
(* analyzeEmails on its own, on every row list                             *)
(***************************************************************************)

InitAnalyze ==
  /\ text = ""
  /\ reading = <<>>
  /\ data \in RowLists
  /\ analysis = Null
  /\ loading = FALSE
  /\ alerts = 0
  /\ input = ""
  /\ result = Null
  /\ download = Null

\* const results = analyzeEmails(parsed); setAnalysis(results)
analyzeData ==
  /\ analysis = Null
  /\ analysis' = Some(analyzeEmails(data))
  /\ UNCHANGED <<text, reading, data, loading, alerts, input, result, download>>

NextAnalyze == analyzeData

SpecAnalyze == InitAnalyze /\ [][NextAnalyze]_vars

(***************************************************************************)
(* analyzeTemplate on its own, on every body                               *)
(***************************************************************************)

InitClassify ==
  /\ text = ""
  /\ reading = <<>>
  /\ data = <<>>
  /\ analysis = Null
  /\ loading = FALSE
  /\ alerts = 0
  /\ input \in Bodies
  /\ result = Null
  /\ download = Null

\* const template = analyzeTemplate(bodyField)
classifyBody ==
  /\ result = Null
  /\ result' = Some(analyzeTemplate(input))
  /\ UNCHANGED <<text, reading, data, analysis, loading, alerts, input, download>>

NextClassify == classifyBody

SpecClassify == InitClassify /\ [][NextClassify]_vars
(***************************************************************************)
(* Properties of the report                                                *)
(***************************************************************************)

Report == analysis[1]

RECURSIVE SumOf(_, _, _)
\* groups[1][field] + ... + groups[k][field]
SumOf(groups, field, k) ==
  IF k = 0 THEN 0 ELSE SumOf(groups, field, k - 1) + groups[k][field]

\* the template type of each body of the rows analyzed on their own
TypeTable == [b \in {bodyOf(e) : e \in AnalyzeRows} |-> analyzeTemplate(b).type]

\* the template type of a row
TypeOf(email) == TypeTable[bodyOf(email)]

\* the positions of the rows of a type, in input order
RowsOfType(emails, type) ==
  SelectSeq([k \in 1..Len(emails) |-> k], LAMBDA k : TypeOf(emails[k]) = type)

\* C1: every row is added to exactly one Template Group, the one keyed by its
\* classification type, and the group counts sum to overall.totalEmails,
\* the number of input rows.
C1_EveryRowInOneGroup ==
  analysis # Null =>
    LET groups == Report.templateGroups
    IN  /\ Report.overall.totalEmails = Len(data)
        /\ SumOf(groups, "count", Len(groups)) = Report.overall.totalEmails
        /\ \A i, j \in 1..Len(groups) : groups[i].name = groups[j].name => i = j
        /\ \A k \in 1..Len(data) :
             \E i \in 1..Len(groups) : groups[i].name = TypeOf(data[k])
        /\ \A i \in 1..Len(groups) :
             LET rows == RowsOfType(data, groups[i].name)
             IN  /\ groups[i].count = Len(rows)
                 /\ Len(groups[i].emails) = Len(rows)
                 /\ \A m \in 1..Len(rows) :
                      /\ groups[i].emails[m].body = bodyOf(data[rows[m]])
                      /\ groups[i].emails[m].subject = subjectOf(data[rows[m]])

\* three rows in two groups
C1_Witness ==
  /\ analysis # Null
  /\ Len(data) = 3
  /\ Len(Report.templateGroups) = 2
  /\ Report.templateGroups[1].count = 2

Abs(x) == IF x < 0 THEN -x ELSE x

\* a number of tenths written with one decimal
TenthsText(t) == ToString(t \div 10) \o "." \o ToString(t % 10)

\* rate is 100 * n / count rounded to one decimal: a nearest tenth, written
\* with one decimal
IsRoundedRate(rate, n, count) ==
  \E t \in 0..1000 :
    /\ 2 * Abs(t * count - 1000 * n) <= count
    /\ rate = TenthsText(t)

\* C2: every Template Group of the Report has count > 0, and its openRate,
\* clickRate and replyRate are 100 * binary count / count rounded to one
\* decimal place (no group of a Report has count 0).
C2_GroupRatesRounded ==
  analysis # Null =>
    \A i \in 1..Len(Report.templateGroups) :
      LET g == Report.templateGroups[i]
      IN  /\ g.count > 0
          /\ IsRoundedRate(g.openRate, g.opens, g.count)
          /\ IsRoundedRate(g.clickRate, g.clicks, g.count)
          /\ IsRoundedRate(g.replyRate, g.replies, g.count)

\* a group of three rows, two of them opened: 66.666... becomes "66.7"
C2_Witness ==
  /\ analysis # Null
  /\ \E i \in 1..Len(Report.templateGroups) :
       /\ Report.templateGroups[i].count = 3
       /\ Report.templateGroups[i].opens = 2
       /\ Report.templateGroups[i].openRate = "66.7"

\* the report without the detail records, which hold the raw counts
Summary(report) ==
  [groups |-> [i \in 1..Len(report.templateGroups) |->
                 LET g == report.templateGroups[i]
                 IN  [name |-> g.name, count |-> g.count, opens |-> g.opens,
                      clicks |-> g.clicks, replies |-> g.replies,
                      avgLength |-> g.avgLength, openRate |-> g.openRate,
                      clickRate |-> g.clickRate, replyRate |-> g.replyRate]],
   overall |-> report.overall,
   subjectAnalysis |-> report.subjectAnalysis]

\* positive raw counts other than those of the rows
OtherCounts == {"1", "7"}

\* the raw count v in place of a positive raw count
Recount(raw, v) == IF Positive(parseInt(raw)) THEN v ELSE raw

\* the row with v in place of each of its positive raw counts
RecountRow(email, v) ==
  [email EXCEPT !.opens = Recount(@, v), !.clicks = Recount(@, v),
                !.replies = Recount(@, v)]

\* C3: binary counting: with any positive raw count of the rows replaced by
\* another positive integer, the group tallies, the overall totals, every
\* rate and every subject bucket of the Report are the same.  (Two row lists
\* that differ in positive raw counts only have the same recounted list.)
C3_BinaryCounting ==
  analysis # Null =>
    \A v \in OtherCounts :
      Summary(analyzeEmails([k \in 1..Len(data) |-> RecountRow(data[k], v)]))
        = Summary(Report)

\* two rows opened 12 times in one group, which counts 2 opens
C3_Witness ==
  /\ analysis # Null
  /\ Len(data) = 2
  /\ data[1].opens = "12" /\ data[2].opens = "12"
  /\ Len(Report.templateGroups) = 1
  /\ Report.templateGroups[1].opens = 2
  /\ Report.overall.totalOpens = 2

\* C4: the overall totals, counted from the rows, are the sums of the group
\* tallies.
C4_TotalsMatchGroups ==
  analysis # Null =>
    LET groups == Report.templateGroups
    IN  /\ Report.overall.totalOpens = SumOf(groups, "opens", Len(groups))
        /\ Report.overall.totalClicks = SumOf(groups, "clicks", Len(groups))
        /\ Report.overall.totalReplies = SumOf(groups, "replies", Len(groups))

\* two groups, an opened row and a row that was not opened
C4_Witness ==
  /\ analysis # Null
  /\ Len(Report.templateGroups) = 2
  /\ Report.overall.totalOpens = 1
  /\ Report.overall.totalReplies = 1
  /\ Report.overall.totalEmails = 2
(***************************************************************************)
(* Properties of parseCSV followed by analyzeEmails                        *)
(***************************************************************************)

StdHeaderLine == "subject,body,opens,clicks,replies"

\* the text is the header line subject,body,opens,clicks,replies and one
\* logical row with opens 1, clicks 0, replies 0, whose body, as the
\* classifier scores it, matches the first three Research-Based indicators,
\* no other template scoring higher
C5_Scenario ==
  /\ analysis # Null
  /\ Split(text, "\n")[1] = StdHeaderLine
  /\ Len(rowObjects(text)) = 1
  /\ LET row == rowObjects(text)[1]
         s   == bodyWithoutSig(row.body)
     IN  /\ row.opens = "1" /\ row.clicks = "0" /\ row.replies = "0"
         /\ Trim(row.body) # ""
         /\ \A k \in 1..3 : patternTest(TEMPLATES[1].indicators[k], s)
         /\ \A t \in 2..Len(TEMPLATES) :
              templateScore(TEMPLATES[t], s) <= templateScore(TEMPLATES[1], s)

\* C5: end to end, the header subject,body,opens,clicks,replies and one row
\* whose body matches the first three Research-Based indicators, with opens 1,
\* clicks 0, replies 0, give one group "Research-Based Outreach" with
\* classification score >= 4, count 1, opens 1, openRate "100.0", and
\* overall.totalEmails 1.
C5_ResearchScenario ==
  C5_Scenario =>
    /\ Len(data) = 1
    /\ analyzeTemplate(bodyOf(data[1])).type = "Research-Based Outreach"
    /\ analyzeTemplate(bodyOf(data[1])).score >= 4
    /\ Len(Report.templateGroups) = 1
    /\ Report.templateGroups[1].name = "Research-Based Outreach"
    /\ Report.templateGroups[1].count = 1
    /\ Report.templateGroups[1].opens = 1
    /\ Report.templateGroups[1].openRate = "100.0"
    /\ Report.overall.totalEmails = 1

\* the scenario file has been read and analyzed
C5_Witness == C5_Scenario /\ text = ScenarioFile

\* the sheets with the header subject,body,opens,clicks,replies whose records
\* all have a subject and a body
FilledSheets ==
  {sh \in Sheets :
     /\ writeCSV(sh.header, <<>>) = StdHeaderLine
     /\ \A r \in 1..Len(sh.records) :
          sh.records[r].subject # "" /\ sh.records[r].body # ""}

\* C6: the header subject,body,opens,clicks,replies and N data rows that each
\* have a non-empty subject and a non-empty body of any length give
\* overall.totalEmails = N and, when N >= 1, at least one Template Group.
C6_EveryFilledRowCounted ==
  analysis # Null =>
    /\ text = IntegrationTestFile =>
         /\ Report.overall.totalEmails = 1
         /\ Len(Report.templateGroups) >= 1
    /\ \A sh \in FilledSheets :
         text = SheetText[sh] =>
           /\ Report.overall.totalEmails = Len(sh.records)
           /\ Len(sh.records) >= 1 => Len(Report.templateGroups) >= 1

\* C7: the quoted field "Hi, I said ""hello""" becomes the single field
\* Hi, I said "hello": not split at the comma, the surrounding quotes
\* stripped, the embedded quote characters kept.
C7_DoubledQuotesKept ==
  (analysis # Null /\ text = DoubledQuotesFile) =>
    /\ Len(data) = 1
    /\ data[1].subject = "Hi, I said \"hello\""

\* the row a record of a sheet stands for: each column's value under the
\* lower-cased title of the column
ExpectedRow(sh, r) ==
  [t \in {ToLowerCase(sh.header[k][1]) : k \in 1..Len(sh.header)} |->
     LET k == CHOOSE k \in 1..Len(sh.header) : ToLowerCase(sh.header[k][1]) = t
     IN  sh.records[r][sh.header[k][2]]]

ExpectedRows(sh) == [r \in 1..Len(sh.records) |-> ExpectedRow(sh, r)]

\* the condition for retaining a row: one of body, subject, recipient is
\* non-empty after trimming, and the body is empty or of 10 characters or more
ShouldKeep(row) ==
  /\ \E c \in {"body", "subject", "recipient"} : Trim(Field(row, c)) # ""
  /\ Field(row, "body") = "" \/ Len(Field(row, "body")) >= 10

\* the sheets with a record whose body has a line break
MultiLineSheets ==
  {sh \in Sheets : \E r \in 1..Len(sh.records) : Includes(sh.records[r].body, "\n")}

\* C8: a quoted body with an embedded newline yields exactly one row, the
\* following physical line joined to it with the newline kept, and the fields
\* after the body are under their own headers: the rows parsed from a sheet
\* with such a body are the rows of its records, those retained.
C8_MultiLineField ==
  analysis # Null =>
    \A sh \in MultiLineSheets :
      text = SheetText[sh] => data = SelectSeq(ExpectedRows(sh), ShouldKeep)

\* a two-line body in the first record, and the record after it parsed too
C8_Witness ==
  /\ analysis # Null
  /\ Len(Split(text, "\n")) = 4
  /\ Len(data) = 2
  /\ Includes(Field(data[1], "body"), "\n")
  /\ Field(data[1], "opens") = "1"
  /\ Field(data[2], "recipient") = "a@b.co"

TitleOf(sh, field) ==
  sh.header[CHOOSE k \in 1..Len(sh.header) : sh.header[k][2] = field][1]

\* the bodies and subjects stored in the groups of a type
StoredAs(report, type) ==
  UNION {{<<report.templateGroups[i].emails[m].body,
            report.templateGroups[i].emails[m].subject>> :
            m \in 1..Len(report.templateGroups[i].emails)} :
         i \in {n \in 1..Len(report.templateGroups) :
                  report.templateGroups[n].name = type}}

\* C10: column names are flexible end to end: whichever of body, Body,
\* Email Body, content, message names the body column and whichever of
\* subject, Subject, Subject Line, subject_line names the subject column, the
\* text classified and stored for each parsed row is the value of that column.
C10_FlexibleColumns ==
  analysis # Null =>
    \A sh \in Sheets :
      text = SheetText[sh] =>
        \A k \in 1..Len(data) :
          LET body    == Field(data[k], ToLowerCase(TitleOf(sh, "body")))
              subject == Field(data[k], ToLowerCase(TitleOf(sh, "subject")))
          IN  <<body, subject>> \in StoredAs(Report, analyzeTemplate(body).type)
(***************************************************************************)
(* Properties of analyzeTemplate                                           *)
(***************************************************************************)

Returned == result[1]

\* the text the indicators are tested on, for the body of the call
Scored == bodyWithoutSig(input)

\* the indicators of template t that match s
Matching(t, s) ==
  {k \in 1..Len(TEMPLATES[t].indicators) : patternTest(TEMPLATES[t].indicators[k], s)}

\* C11: every body that matches at least 3 of the Research-Based indicators
\* is classified "Research-Based Outreach" with a score of at least 3,
\* whatever other indicators it matches.
C11_ThreeResearchIndicators ==
  (result # Null /\ Trim(input) # "" /\ Cardinality(Matching(1, Scored)) >= 3) =>
    /\ Returned.type = "Research-Based Outreach"
    /\ Returned.score >= 3
(***************************************************************************)
(* Properties of the inputs without rows and without numbers               *)
(***************************************************************************)

\* C13: for a text of fewer than two lines parseCSV returns no rows, and
\* analyzeEmails of no rows returns a Report with overall.totalEmails = 0 and
\* no Template Groups; neither raises.
C13_FewerThanTwoLines ==
  analysis # Null =>
    /\ Len(Split(text, "\n")) < 2 => data = <<>>
    /\ data = <<>> =>
         /\ Report.overall.totalEmails = 0
         /\ Report.templateGroups = <<>>

\* a file of the header line alone has been read and analyzed
C13_Witness ==
  /\ analysis # Null
  /\ text = "Subject Line,Email Body,recipient,opened"
  /\ data = <<>>
  /\ Report.overall.totalEmails = 0
\* the value of a row under the first of the aliases that holds one
FirstValue(email, aliases) ==
  LET at == {k \in 1..Len(aliases) : Field(email, aliases[k]) # ""}
  IN  IF at = {} THEN "" ELSE Field(email, aliases[Min(at)])

\* the aliases of a raw count, and its flag
MetricAliases ==
  [opens   |-> <<"opens", "Opens", "opened", "Opened">>,
   clicks  |-> <<"clicks", "Clicks", "clicked", "Clicked">>,
   replies |-> <<"replies", "Replies", "replied", "Replied">>]

FlagOf == [opens |-> "opened", clicks |-> "clicked", replies |-> "replied"]

\* no value, or a value that does not begin, after white space and a sign,
\* with a digit
NoInteger(v) ==
  LET t == TrimStart(v)
      u == IF Len(t) > 0 /\ CharAt(t, 1) \in {"+", "-"} THEN SubSeq(t, 2, Len(t)) ELSE t
  IN  Len(u) = 0 \/ CharAt(u, 1) \notin Digits

\* C14: for each of opens, clicks, replies, when the row has no value under
\* any alias or the value is not parsable as an integer, calculateMetrics
\* returns the raw count 0 and the binary flag false.
C14_UnparsableCountsAsZero ==
  analysis # Null =>
    \A k \in 1..Len(data) :
      \A f \in {"opens", "clicks", "replies"} :
        NoInteger(FirstValue(data[k], MetricAliases[f])) =>
          /\ calculateMetrics(data[k])[f] = Num(0)
          /\ ~calculateMetrics(data[k])[FlagOf[f]]
(***************************************************************************)
(* Properties of the component when a call throws                          *)
(***************************************************************************)

\* C15: when parseCSV or analyzeEmails fails inside reader.onload, the
\* failure is caught, exactly one alert is raised, loading returns to false,
\* and data and analysis keep the values they had before the upload started
\* (no step between the start of the upload and the callback changes them).
C15_FailureLeavesState ==
  [][(\E stage \in Stages : readerOnError(stage)) =>
       /\ alerts' = alerts + 1
       /\ ~loading'
       /\ data' = data
       /\ analysis' = analysis]_vars
(***************************************************************************)
(* Properties of the order of the groups and of the subject buckets        *)
(***************************************************************************)

\* the first row of a type
FirstRow(type) == Min({k \in 1..Len(data) : TypeOf(data[k]) = type})

\* C16: templateGroups is ordered by count, non-increasing, and groups with
\* equal count are in the order in which their templates were first met among
\* the rows.
C16_GroupOrder ==
  analysis # Null =>
    LET groups == Report.templateGroups
    IN  \A i, j \in 1..Len(groups) :
          i < j =>
            /\ groups[i].count >= groups[j].count
            /\ groups[i].count = groups[j].count =>
                 FirstRow(groups[i].name) < FirstRow(groups[j].name)

\* the template met first has one row and comes second, after the template of
\* the two rows that follow
C16_Witness ==
  /\ analysis # Null
  /\ Len(data) = 3
  /\ Len(Report.templateGroups) = 2
  /\ Report.templateGroups[1].count = 2
  /\ Report.templateGroups[2].name = TypeOf(data[1])

\* the number of rows that satisfy P, and of those that were opened too
CountRows(P(_)) == Cardinality({k \in 1..Len(data) : P(data[k])})

CountOpened(P(_)) ==
  Cardinality({k \in 1..Len(data) : P(data[k]) /\ calculateMetrics(data[k]).opened})

\* the bucket that counts the rows that satisfy P
BucketOf(P(_)) == [opens |-> CountOpened(P), total |-> CountRows(P)]

\* C17: each row adds one to the total of withQuestion if its subject holds
\* '?' and of withoutQuestion otherwise, one to the total of shortSubject if
\* its subject has fewer than 40 characters (an empty subject too) and of
\* longSubject otherwise, and one to the opens of those buckets iff it was
\* opened; so both pairs of totals sum to totalEmails.
C17_SubjectBuckets ==
  analysis # Null =>
    LET sa == Report.subjectAnalysis
    IN  /\ sa.withQuestion = BucketOf(LAMBDA e : Includes(subjectOf(e), "?"))
        /\ sa.withoutQuestion = BucketOf(LAMBDA e : ~Includes(subjectOf(e), "?"))
        /\ sa.shortSubject = BucketOf(LAMBDA e : Len(subjectOf(e)) < 40)
        /\ sa.longSubject = BucketOf(LAMBDA e : Len(subjectOf(e)) >= 40)
        /\ sa.withQuestion.total + sa.withoutQuestion.total
             = Report.overall.totalEmails
        /\ sa.shortSubject.total + sa.longSubject.total
             = Report.overall.totalEmails

\* an empty subject, a subject of exactly 40 characters and a long question
C17_Witness ==
  /\ analysis # Null
  /\ Len(data) = 3
  /\ subjectOf(data[1]) = ""
  /\ Len(subjectOf(data[2])) = 40
  /\ Includes(subjectOf(data[3]), "?") /\ Len(subjectOf(data[3])) > 40
  /\ Report.subjectAnalysis.shortSubject = [opens |-> 0, total |-> 1]
  /\ Report.subjectAnalysis.longSubject = [opens |-> 1, total |-> 2]
  /\ Report.subjectAnalysis.withQuestion = [opens |-> 0, total |-> 1]
  /\ Report.subjectAnalysis.withoutQuestion = [opens |-> 1, total |-> 2]
RECURSIVE WeightSum(_, _, _)
\* the sum of the weights of the indicators in K among the first n of template t
WeightSum(t, K, n) ==
  IF n = 0 THEN 0
  ELSE WeightSum(t, K, n - 1)
         + (IF n \in K THEN TEMPLATES[t].indicators[n].weight ELSE 0)

\* the weighted score of every template on the text s
ScoresOf(s) ==
  [t \in 1..Len(TEMPLATES) |->
     WeightSum(t, Matching(t, s), Len(TEMPLATES[t].indicators))]

\* the templates whose score reaches their minimum
Qualifying(sc) == {t \in 1..Len(TEMPLATES) : sc[t] >= TEMPLATES[t].minScore}

\* the first registered among the qualifying templates of highest score
Best(sc) ==
  CHOOSE t \in Qualifying(sc) :
    \A u \in Qualifying(sc) : sc[u] < sc[t] \/ (sc[u] = sc[t] /\ t <= u)

Pieces(s) ==
  1 + Cardinality({i \in 1..Len(s) :
                     /\ CharAt(s, i) \in WhiteSpace
                     /\ i = 1 \/ CharAt(s, i - 1) \notin WhiteSpace})

WordsIn(s) ==
  Cardinality({i \in 1..Len(s) :
                 /\ CharAt(s, i) \notin WhiteSpace
                 /\ i = 1 \/ CharAt(s, i - 1) \in WhiteSpace})

\* C20: the word count the fallback compares with 30 and 150 is the number of
\* words in the text before the first signature marker: 29 words followed by
\* a signature count as 29 (so the body is "Short & Direct"), and a body that
\* begins with a signature marker counts as 0 words.
C20_WordCountIsWords ==
  (result # Null /\ Trim(input) # "") =>
    /\ wordCount(Scored) = WordsIn(Scored)
    /\ (Qualifying(ScoresOf(Scored)) = {} /\ WordsIn(Scored) < 30) =>
         Returned.type = "Short & Direct"

(***************************************************************************)
(* Properties of the text after a signature marker                         *)
(***************************************************************************)

\* the body as written holds a signature marker, in either case
HasMarker(s) == Starts(ToLowerCase(s), SignatureMarkers) # {}

\* C21: only the text before the first signature marker is scored, so a
\* text appended after a marker never changes the result of analyzeTemplate,
\* and a pattern that matches only in the appended text adds to no score.
C21_TextAfterMarkerIgnored ==
  (result # Null /\ HasMarker(input)) =>
    \A sfx \in Appended : analyzeTemplate(input \o sfx) = Returned

(***************************************************************************)
(* Properties of the lengths kept in a group                               *)
(***************************************************************************)

RECURSIVE BodyLengths(_, _, _)
\* the sum of the lengths of the bodies, as given, of the first m of rows
BodyLengths(emails, rows, m) ==
  IF m = 0 THEN 0
  ELSE BodyLengths(emails, rows, m - 1) + Len(bodyOf(emails[rows[m]]))

\* avg is total / count rounded to the nearest integer, a half rounded up
IsRoundedAverage(avg, total, count) ==
  /\ 2 * total - count < 2 * avg * count
  /\ 2 * avg * count <= 2 * total + count

\* C22: after each row (every row list is passed with each of its prefixes,
\* and the groups keep count, totalLength and avgLength from the last row
\* on), each group has totalLength the sum of the lengths of the bodies of
\* the rows classified into it, avgLength = round(totalLength / count), and
\* one update, with one detail record, for each such row and no other.
C22_GroupLengths ==
  analysis # Null =>
    /\ \A k \in 1..Len(data) :
         \E i \in 1..Len(Report.templateGroups) :
           Report.templateGroups[i].name = TypeOf(data[k])
    /\ \A i \in 1..Len(Report.templateGroups) :
         LET g == Report.templateGroups[i]
             rows == RowsOfType(data, g.name)
         IN  /\ Len(rows) >= 1
             /\ g.count = Len(rows)
             /\ Len(g.emails) = Len(rows)
             /\ g.totalLength = BodyLengths(data, rows, Len(rows))
             /\ IsRoundedAverage(g.avgLength, g.totalLength, g.count)

\* bodies of 23 and 24 characters in one group: 23.5 becomes 24
C22_Witness ==
  /\ analysis # Null
  /\ \E i \in 1..Len(Report.templateGroups) :
       /\ Report.templateGroups[i].count = 2
       /\ Report.templateGroups[i].totalLength = 47
       /\ Report.templateGroups[i].avgLength = 24

(***************************************************************************)
(* Properties of the export                                                *)
(***************************************************************************)

\* the step is a call of exportReport
ExportStep == \E named \in Clock : \E at \in 1..named : exportReport(at, named)

\* the object in the downloaded file is made of the report: the four keys,
\* and in templates one entry of six keys for each group, in its order
IsExportOf(content, report) ==
  /\ DOMAIN content = {"generatedAt", "overall", "templates", "subjectAnalysis"}
  /\ content.overall = report.overall
  /\ content.subjectAnalysis = report.subjectAnalysis
  /\ Len(content.templates) = Len(report.templateGroups)
  /\ \A i \in 1..Len(report.templateGroups) :
       /\ DOMAIN content.templates[i] =
            {"name", "count", "openRate", "clickRate", "replyRate", "avgLength"}
       /\ \A key \in DOMAIN content.templates[i] :
            content.templates[i][key] = report.templateGroups[i][key]

\* C23: a file is downloaded on a call of exportReport only; the call does
\* nothing while analysis is null, and otherwise downloads {generatedAt,
\* overall, templates, subjectAnalysis} with one {name, count, openRate,
\* clickRate, replyRate, avgLength} entry per group in the order of the
\* report; it leaves data, analysis and loading as they are.
C23_ExportOnRequest ==
  [][/\ download' # download => ExportStep
     /\ ExportStep =>
          /\ UNCHANGED <<data, analysis, loading>>
          /\ analysis = Null => UNCHANGED download
          /\ analysis # Null =>
               /\ download' # Null
               /\ IsExportOf(download'[1].content, Report)]_vars

\* a report of two groups was exported, then the component was reset
C23_Witness ==
  /\ download # Null
  /\ Len(download[1].content.templates) = 2
  /\ analysis = Null

(***************************************************************************)
(* Properties of the component over all its events                         *)
(***************************************************************************)

\* C24: in every state, over uploads, loads, throws, read errors, resets and
\* exports, analysis is null or the complete report of the rows held in
\* data, every one of them counted (overall.totalEmails = number of rows of
\* data = sum of the group counts), and analysis is non-null only while
\* loading is false.
C24_ReportOfData ==
  analysis # Null =>
    /\ ~loading
    /\ Report = analyzeEmails(data)
    /\ Report.overall.totalEmails = Len(data)
    /\ SumOf(Report.templateGroups, "count", Len(Report.templateGroups)) = Len(data)

\* the report of two rows, shown after an earlier report was exported
C24_Witness ==
  /\ analysis # Null
  /\ Len(data) = 2
  /\ download # Null
  /\ Len(download[1].content.templates) = 1

\* C25: whenever an upload has set loading to true, loading is false again
\* at some later time, whether the read and the analysis succeed or fail.
C25_LoadingEnds == loading ~> ~loading

\* C26: an upload starts only while loading is false and analysis is null;
\* so at most one read is in flight, and the reader whose callback runs is
\* the only one, that of the file selected last: no callback of an earlier
\* upload writes data or analysis after a later upload.
C26_OneReadInFlight ==
  [][/\ Len(reading') > Len(reading) => (~loading /\ analysis = Null)
     /\ Len(reading') <= 1
     /\ Len(reading') < Len(reading) => reading = <<text>>]_vars

\* a second upload is being read, after a first one was analyzed, exported
\* and reset
C26_Witness ==
  /\ download # Null
  /\ loading
  /\ reading = <<text>>
  /\ text = TwoGroupsFile
  /\ Len(download[1].content.templates) = 1

(***************************************************************************)
(* Properties of the order of the rows                                     *)
(***************************************************************************)

RECURSIVE Listed(_)
\* the elements of a finite set, one after the other
Listed(S) ==
  IF S = {} THEN <<>>
  ELSE LET x == CHOOSE y \in S : TRUE IN <<x>> \o Listed(S \ {x})

\* the rows in one fixed order
RowOrder == Listed(AnalyzeRows)

RECURSIVE Arranged(_, _)
\* the rows of emails arranged in the fixed order, from its k-th row on:
\* the same list for every permutation of emails
Arranged(emails, k) ==
  IF k > Len(RowOrder) THEN <<>>
  ELSE SelectSeq(emails, LAMBDA e : e = RowOrder[k]) \o Arranged(emails, k + 1)

\* what a report says whatever the order of its groups and of their detail
\* records
Values(report) ==
  [groups |-> {[name |-> g.name, count |-> g.count, opens |-> g.opens,
                clicks |-> g.clicks, replies |-> g.replies,
                totalLength |-> g.totalLength, avgLength |-> g.avgLength,
                openRate |-> g.openRate, clickRate |-> g.clickRate,
                replyRate |-> g.replyRate] :
                  g \in {report.templateGroups[i] :
                           i \in 1..Len(report.templateGroups)}},
   overall |-> report.overall,
   subjectAnalysis |-> report.subjectAnalysis]

\* C27: the values of the groups, the overall totals and rates and the
\* subject buckets do not depend on the order of the rows: the report of
\* data has the values of the report of the same rows arranged in the fixed
\* order, which is the same list for all permutations of data.
C27_OrderOfRows ==
  analysis # Null =>
    Values(Report) = Values(analyzeEmails(Arranged(data, 1)))

\* three rows that are not in the fixed order, two of them in one group with
\* bodies of different lengths
C27_Witness ==
  /\ analysis # Null
  /\ Len(data) = 3
  /\ data # Arranged(data, 1)
  /\ Len(Report.templateGroups) = 2
  /\ Report.templateGroups[1].totalLength = 47

(***************************************************************************)
(* Properties of the lines parseCSV consumes                               *)
(***************************************************************************)

RECURSIVE Taken(_, _)
\* the logical rows from line i on: the first and the last physical line each
\* takes, and its values
Taken(lines, i) ==
  IF i > Len(lines) THEN <<>>
  ELSE LET rec == scanRecord(lines, i,
                    [values |-> <<>>, current |-> "", inQuotes |-> FALSE])
       IN  <<[first |-> i, last |-> rec.i,
              values |-> pushField(rec.st.values, rec.st.current)]>>
             \o Taken(lines, rec.i + 1)

\* C28: parseCSV ends on every text, a text with a quote that is never
\* closed too; each physical line after the header is taken by one logical
\* row and no line by two; the rows returned are the kept ones among the
\* logical rows, in the order of their lines, so there are at most (number
\* of physical lines - 1) of them.
C28_LinesTakenOnce ==
  analysis # Null =>
    LET lines == Split(text, "\n")
        taken == IF Len(lines) < 2 THEN <<>> ELSE Taken(lines, 2)
        rows  == [k \in 1..Len(taken) |->
                    makeRow(parseHeaders(lines[1]), taken[k].values)]
    IN  /\ \A k \in 1..Len(taken) :
             /\ taken[k].first <= taken[k].last
             /\ taken[k].last <= Len(lines)
             /\ taken[k].first = IF k = 1 THEN 2 ELSE taken[k - 1].last + 1
        /\ Len(lines) >= 2 => taken[Len(taken)].last = Len(lines)
        /\ data = SelectSeq(rows, keepRow)
        /\ Len(data) <= Len(taken)
        /\ Len(taken) <= Len(lines) - 1 \/ (Len(lines) < 2 /\ data = <<>>)

\* the text whose quote is never closed: one logical row takes the three
\* data lines
C28_Witness ==
  /\ analysis # Null
  /\ text = OpenQuoteFile
  /\ Len(Split(text, "\n")) = 4
  /\ Len(data) = 1
  /\ data[1].subject = "Hi"

(***************************************************************************)
(* Properties of the tallies of a group                                    *)
(***************************************************************************)

\* the rates from 0.0 to 100.0, written with one decimal
RateTexts == {TenthsText(t) : t \in 0..1000}

\* C29: at every step of the pass (every row list is passed with each of its
\* prefixes, and the rates and the sort leave the tallies as they are),
\* every group has count = number of its detail records >= 1 and opens,
\* clicks and replies between 0 and count, so every group rate of the Report
\* lies between 0 and 100.
C29_TalliesWithinCount ==
  analysis # Null =>
    \A i \in 1..Len(Report.templateGroups) :
      LET g == Report.templateGroups[i]
      IN  /\ g.count = Len(g.emails)
          /\ g.count >= 1
          /\ \A key \in {"opens", "clicks", "replies"} :
               0 <= g[key] /\ g[key] <= g.count
          /\ \A key \in {"openRate", "clickRate", "replyRate"} :
               g[key] \in RateTexts

\* a group of two rows, both opened 12 times: 2 opens and the rate 100.0,
\* next to a group without a reply: the rate 0.0
C29_Witness ==
  /\ analysis # Null
  /\ \E i, j \in 1..Len(Report.templateGroups) :
       /\ Report.templateGroups[i].count = 2
       /\ Report.templateGroups[i].opens = 2
       /\ Report.templateGroups[i].openRate = "100.0"
       /\ Report.templateGroups[j].replies = 0
       /\ Report.templateGroups[j].replyRate = "0.0"

(***************************************************************************)
(* Properties of the characters of a field                                 *)
(***************************************************************************)

====
